---------------------------- MODULE Spec2Model ----------------------------
(***************************************************************************)
(* Model of the PDF extraction service: PDFExtractionService.process       *)
(* (src/src/main.py) and PDFExtractor (src/src/utils/pdf_utils.py).        *)
(*                                                                         *)
(* A text is a sequence of characters; a character is a one-character      *)
(* string, or a code-point name such as "U+00E3" for a non-ASCII one.      *)
(* Python's None is the value None below, which is no text.                *)
(***************************************************************************)
EXTENDS Integers, Sequences, FiniteSets, TLC

None == <<"<None>">>

(***************************************************************************)
(* Characters                                                              *)
(***************************************************************************)
Digits == {"0", "1", "2", "3", "4", "5", "6", "7", "8", "9"}

UpperSeq == <<"A", "B", "C", "D", "E", "F", "G", "H", "I", "J", "K", "L", "M",
              "N", "O", "P", "Q", "R", "S", "T", "U", "V", "W", "X", "Y", "Z">>

LowerSeq == <<"a", "b", "c", "d", "e", "f", "g", "h", "i", "j", "k", "l", "m",
              "n", "o", "p", "q", "r", "s", "t", "u", "v", "w", "x", "y", "z">>

Upper == {UpperSeq[i] : i \in 1..26}

Lower == {LowerSeq[i] : i \in 1..26}

Punct == {" ", "\n", ".", ",", "/", "_", "-", ":", "$"}

Whitespace == {" ", "\n"}

Ascii == Digits \cup Upper \cup Lower \cup Punct

\* the characters \w of the regular expressions (the text is ASCII there)
WordChars == Digits \cup Upper \cup Lower \cup {"_"}

\* t[i], or "" (no character) outside the text
At(t, i) == IF i \in 1..Len(t) THEN t[i] ELSE ""

\* t[i..j] (both inclusive), empty when j < i
Slice(t, i, j) == [k \in 1..(j - i + 1) |-> t[i + k - 1]]

RECURSIVE Flatten(_)
Flatten(ss) == IF ss = <<>> THEN <<>> ELSE Head(ss) \o Flatten(Tail(ss))

\* the number of consecutive characters of the set cls in t from position i
RECURSIVE RunLen(_, _, _)
RunLen(t, i, cls) == IF At(t, i) \in cls THEN 1 + RunLen(t, i + 1, cls) ELSE 0

\* \b between t[p] and t[p+1]
Boundary(t, p) == (At(t, p) \in WordChars) # (At(t, p + 1) \in WordChars)

\* Python's "sub in t"
Contains(t, sub) ==
    \E i \in 1..(Len(t) - Len(sub) + 1) : Slice(t, i, i + Len(sub) - 1) = sub

\* Python's "not t.strip()"
IsBlank(t) == \A i \in 1..Len(t) : t[i] \in Whitespace

(***************************************************************************)
(* PDFExtractor.normalize_text                                             *)
(***************************************************************************)
\* unicodedata.normalize("NFKD", c) for one character
NFKD(c) ==
    CASE c = "U+00E3" -> <<"a", "U+0303">>     \* a with tilde
      [] c = "U+00C9" -> <<"E", "U+0301">>     \* E with acute
      [] c = "U+00E7" -> <<"c", "U+0327">>     \* c with cedilla
      [] c = "U+00BA" -> <<"o">>               \* masculine ordinal
      [] OTHER -> <<c>>

ToUpper(c) ==
    IF c \in Lower THEN UpperSeq[CHOOSE i \in 1..26 : LowerSeq[i] = c] ELSE c

normalize_text(text) ==
    LET decomposed == Flatten([i \in 1..Len(text) |-> NFKD(text[i])])
        ascii == SelectSeq(decomposed, LAMBDA c : c \in Ascii)
    IN  [i \in 1..Len(ascii) |-> ToUpper(ascii[i])]

(***************************************************************************)
(* PDFExtractor.normalize_money                                            *)
(***************************************************************************)
\* value.replace(".", "").replace(",", ".")
ReplaceSeparators(value) ==
    LET nodots == SelectSeq(value, LAMBDA c : c # ".")
    IN  [i \in 1..Len(nodots) |-> IF nodots[i] = "," THEN "." ELSE nodots[i]]

\* the strings float() parses, among those this model builds: digits with an
\* optional point and at most two decimals
IsFloatLiteral(v) ==
    LET n == RunLen(v, 1, Digits)
    IN  /\ n >= 1
        /\ \/ Len(v) = n
           \/ /\ At(v, n + 1) = "."
              /\ Len(v) - (n + 1) <= 2
              /\ RunLen(v, n + 2, Digits) = Len(v) - (n + 1)

RECURSIVE StripLeadingZeros(_)
StripLeadingZeros(ds) ==
    IF Len(ds) > 1 /\ Head(ds) = "0" THEN StripLeadingZeros(Tail(ds)) ELSE ds

\* f"{float(v):.2f}" for a float literal v of at most two decimals (exact as
\* long as v has no more than 15 significant digits)
FormatFloat2(v) ==
    LET n == RunLen(v, 1, Digits)
        int == StripLeadingZeros(Slice(v, 1, n))
        dec == Slice(v, n + 2, Len(v))
        pad == [i \in 1..(2 - Len(dec)) |-> "0"]
    IN  int \o <<".">> \o dec \o pad

normalize_money(value) ==
    IF value = <<>> THEN None
    ELSE LET v == ReplaceSeparators(value)
         IN  IF IsFloatLiteral(v) THEN FormatFloat2(v) ELSE value

(***************************************************************************)
(* The regular expressions of extract_fields_from_text_generic             *)
(***************************************************************************)
\* re.search: the match at the least position, or NoMatch
NoMatch == 0

\* \b([A-Z]{3,}(?: [A-Z]{2,}){0,3})\b at position i: the length matched.
\* Every [A-Z] run is taken whole, since neither a space nor \b can follow a
\* letter that another letter follows; the groups are dropped from the right
\* until \b holds.
RECURSIVE NameGroups(_, _, _)
NameGroups(t, e, k) ==
    \* the end positions after 0, 1, ... groups, starting after position e
    IF k < 3 /\ At(t, e + 1) = " " /\ RunLen(t, e + 2, Upper) >= 2
    THEN <<e>> \o NameGroups(t, e + 1 + RunLen(t, e + 2, Upper), k + 1)
    ELSE <<e>>

NomeLenAt(t, i) ==
    LET first == RunLen(t, i, Upper)
        ends == NameGroups(t, i + first - 1, 0)
        ok == {k \in 1..Len(ends) : Boundary(t, ends[k])}
    IN  IF first >= 3 /\ Boundary(t, i - 1) /\ ok # {}
        THEN ends[CHOOSE k \in ok : \A j \in ok : j <= k] - i + 1
        ELSE NoMatch

\* \b\d{4,6}\b at position i
NumeroLenAt(t, i) ==
    LET n == RunLen(t, i, Digits)
    IN  IF n \in 4..6 /\ Boundary(t, i - 1) /\ Boundary(t, i + n - 1)
        THEN n ELSE NoMatch

\* \b\d{2}/\d{2}/\d{4}\b at position i
DataLenAt(t, i) ==
    IF /\ Boundary(t, i - 1)
       /\ RunLen(t, i, Digits) = 2
       /\ At(t, i + 2) = "/"
       /\ RunLen(t, i + 3, Digits) = 2
       /\ At(t, i + 5) = "/"
       /\ RunLen(t, i + 6, Digits) >= 4
       /\ Boundary(t, i + 9)
    THEN 10 ELSE NoMatch

\* \d{1,3}(?:\.\d{3})*,\d{2} at position i
RECURSIVE MoneyGroupsEnd(_, _)
MoneyGroupsEnd(t, e) ==
    IF At(t, e + 1) = "." /\ RunLen(t, e + 2, Digits) >= 3
    THEN MoneyGroupsEnd(t, e + 4) ELSE e

ValorLenAt(t, i) ==
    LET n == RunLen(t, i, Digits)
        e == MoneyGroupsEnd(t, i + n - 1)
    IN  IF /\ n \in 1..3
           /\ At(t, e + 1) = ","
           /\ RunLen(t, e + 2, Digits) >= 2
        THEN e + 3 - i + 1 ELSE NoMatch

\* re.search(...).group(0), or None: lens[i] is the length the pattern
\* matches at position i
Search(t, lens) ==
    LET hits == {i \in 1..Len(t) : lens[i] # NoMatch}
    IN  IF hits = {} THEN None
        ELSE LET i == CHOOSE h \in hits : \A g \in hits : h <= g
             IN  Slice(t, i, i + lens[i] - 1)

SearchNome(t) == Search(t, [i \in 1..Len(t) |-> NomeLenAt(t, i)])

SearchNumero(t) == Search(t, [i \in 1..Len(t) |-> NumeroLenAt(t, i)])

SearchData(t) == Search(t, [i \in 1..Len(t) |-> DataLenAt(t, i)])

\* re.findall: the matches from left to right, none overlapping another
RECURSIVE FindallFrom(_, _)
FindallFrom(t, i) ==
    IF i > Len(t) THEN <<>>
    ELSE IF ValorLenAt(t, i) # NoMatch
         THEN <<Slice(t, i, i + ValorLenAt(t, i) - 1)>>
                  \o FindallFrom(t, i + ValorLenAt(t, i))
         ELSE FindallFrom(t, i + 1)

FindallValores(t) == FindallFrom(t, 1)

(***************************************************************************)
(* PDFExtractor.extract_fields_from_text_generic                           *)
(*                                                                         *)
(* A dict is a function whose domain is its key set.                       *)
(***************************************************************************)
EmptyDict == [k \in {} |-> None]

\* the branch of "numero_oab" in schema, on the normalized text t
IdentityRules(t) ==
    [k \in {"nome", "numero_oab"} |->
        IF k = "nome" THEN SearchNome(t) ELSE SearchNumero(t)]

\* a bug: total is the first amount, not the last
LedgerRules_totalFirst(t) ==
    LET valores == FindallValores(t)
    IN  [k \in {"data_referencia", "saldo_vencido", "saldo_a_vencer", "total"} |->
            CASE k = "data_referencia" -> SearchData(t)
              [] k = "saldo_vencido" ->
                    IF Len(valores) > 0 THEN normalize_money(valores[1]) ELSE None
              [] k = "saldo_a_vencer" ->
                    IF Len(valores) > 1 THEN normalize_money(valores[2]) ELSE None
              [] k = "total" ->
                    IF valores # <<>> THEN normalize_money(valores[1]) ELSE None]

\* the branch of "data_referencia" in schema, on the normalized text t
LedgerRules(t) ==
    LET valores == FindallValores(t)
    IN  [k \in {"data_referencia", "saldo_vencido", "saldo_a_vencer", "total"} |->
            CASE k = "data_referencia" -> SearchData(t)
              [] k = "saldo_vencido" ->
                    IF Len(valores) > 0 THEN normalize_money(valores[1]) ELSE None
              [] k = "saldo_a_vencer" ->
                    IF Len(valores) > 1 THEN normalize_money(valores[2]) ELSE None
              [] k = "total" ->
                    IF valores # <<>> THEN normalize_money(valores[Len(valores)])
                    ELSE None]

\* a bug: "if" for "elif", both rule sets run when both keys are there
extract_fields_both(txt, schema) ==
    LET t == normalize_text(txt)
        oab == IF "numero_oab" \in DOMAIN schema THEN IdentityRules(t) ELSE EmptyDict
        tela == IF "data_referencia" \in DOMAIN schema THEN LedgerRules(t) ELSE EmptyDict
    IN  [k \in DOMAIN oab \cup DOMAIN tela |->
            IF k \in DOMAIN oab THEN oab[k] ELSE tela[k]]

extract_fields_from_text_generic(text, schema) ==
    LET t == normalize_text(text)
    IN  IF "numero_oab" \in DOMAIN schema THEN IdentityRules(t)
        ELSE IF "data_referencia" \in DOMAIN schema THEN LedgerRules(t)
        ELSE EmptyDict

\* for field in extraction_schema.keys(): fields.setdefault(field, None)
SetDefaults(flds, schema) ==
    [k \in DOMAIN flds \cup DOMAIN schema |->
        IF k \in DOMAIN flds THEN flds[k] ELSE None]

(***************************************************************************)
(* The requests and the documents                                          *)
(***************************************************************************)
\* no more than MaxCalls requests are made in one behaviour
MaxCalls == 2

Threads == {"w1", "w2"}

Labels == {"oab_1", "tela_sistema_1"}

SchemaOab == [nome |-> "Nome do advogado", numero_oab |-> "Numero OAB"]

SchemaTela ==
    [data_referencia |-> "Data de referencia das parcelas",
     saldo_vencido |-> "Valor vencido",
     saldo_a_vencer |-> "Valor a vencer",
     total |-> "Valor total"]

\* names both dispatch keys and leaves "nome" out
SchemaBoth == [numero_oab |-> "Numero OAB", data_referencia |-> "Data"]

\* names neither dispatch key
SchemaOther == [cpf |-> "CPF"]

\* the schema the client sends with a label: _detect_schema
SchemaOf(label) == IF label = "oab_1" THEN SchemaOab ELSE SchemaTela

\* base64.b64decode raised binascii.Error
BinasciiError == <<-1>>

\* the request bodies' "pdf" strings
Pdfs == {"", "QQ", "QQ==", "Qg=="}

\* base64.b64decode(pdf_b64): a length that is no multiple of four has
\* incorrect padding
b64decode(pdf_b64) ==
    CASE pdf_b64 = "" -> <<>>
      [] pdf_b64 = "QQ" -> BinasciiError
      [] pdf_b64 = "QQ==" -> <<65>>
      [] pdf_b64 = "Qg==" -> <<66>>

\* hashlib.md5(pdf_bytes).hexdigest()
md5(pdf_bytes) ==
    CASE pdf_bytes = <<65>> -> "7fc56270e7a70fa81a5935b72eacbe29"
      [] pdf_bytes = <<66>> -> "9d5ed678fe57bcca610140957afab571"

\* page.get_text("text") of every page of the document, in page order:
\* <<65>> stands for a document with embedded text, <<66>> for a scan
EmbeddedText(pdf_bytes) ==
    CASE pdf_bytes = <<65>> ->
            << <<"J", "O", "A", "O", " ", "D", "A", " ", "S", "I", "L", "V", "A", "\n">>,
               <<"O", "A", "B", " ", "1", "2", "3", "4", "5", "6", "\n">> >>
      [] pdf_bytes = <<66>> -> << <<>>, <<"\n">> >>

\* pytesseract.image_to_string of every page image, in page order
OcrText(pdf_bytes) ==
    CASE pdf_bytes = <<65>> ->
            << <<"J", "0", "A", "O", "\n">>, <<"0", "A", "B", "\n">> >>
      [] pdf_bytes = <<66>> ->
            << <<"0", "1", "/", "0", "3", "/", "2", "0", "2", "4", " ",
                 "1", ".", "0", "0", "0", ",", "0", "0", "\n">>,
               <<"5", "0", "0", ",", "5", "0", "\n">> >>

NumPages(pdf_bytes) == Len(EmbeddedText(pdf_bytes))

ErrorMarker == <<"_", "_", "E", "R", "R", "O", "R", "_", "_">>

\* str(e) of the exception a library call raised
Message(call) ==
    CASE call = "open" -> <<"n", "o", " ", "p", "d", "f">>
      [] call = "get_text" -> <<"p", "a", "g", "e">>
      [] call = "convert_from_bytes" -> <<"p", "o", "p", "p", "l", "e", "r">>
      [] call = "image_to_string" -> <<"t", "e", "s", "s", "e", "r", "a", "c", "t">>

\* text = f"__ERROR__ {str(e)}"
ErrorText(call) == ErrorMarker \o <<" ">> \o Message(call)

(***************************************************************************)
(* KnowledgeBase: the file knowledge_base.json                             *)
(***************************************************************************)
JsonNull == <<"null">>

\* json.dump(data, f): None is written as null
json_dump(data) ==
    [l \in DOMAIN data |->
        [i \in 1..Len(data[l]) |->
            [k \in DOMAIN data[l][i] |->
                IF data[l][i][k] = None THEN JsonNull ELSE data[l][i][k]]]]

\* json.load(f) of a complete document: null is read as None
json_load(content) ==
    [l \in DOMAIN content |->
        [i \in 1..Len(content[l]) |->
            [k \in DOMAIN content[l][i] |->
                IF content[l][i][k] = JsonNull THEN None ELSE content[l][i][k]]]]

\* the file: absent, a complete JSON document, or partial (opened for writing
\* and not yet written, or overwritten by two writers at once)
NoFile == [state |-> "absent", content |-> EmptyDict]

\* a bug: the label's list is assigned, not appended to
AppendRecord_overwrite(knowledge, label, flds) ==
    [l \in DOMAIN knowledge \cup {label} |->
        IF l = label THEN <<flds>> ELSE knowledge[l]]

\* knowledge.setdefault(label, []).append(fields)
AppendRecord(knowledge, label, flds) ==
    [l \in DOMAIN knowledge \cup {label} |->
        IF l = label
        THEN (IF l \in DOMAIN knowledge THEN knowledge[l] ELSE <<>>) \o <<flds>>
        ELSE knowledge[l]]

(***************************************************************************)
(* State                                                                   *)
(***************************************************************************)
VARIABLES
    pc,          \* where each worker thread is in extract_info / process
    req,         \* its request: label, extraction_schema, pdf
    pdf_bytes,   \* process: pdf_bytes
    text,        \* extract_text_from_pdf_bytes and process: text
    page,        \* the number of pages or images the running loop has done
    fields,      \* process: fields
    knowledge,   \* process: knowledge
    result,      \* the HTTP status of the response
    cache,       \* PDFExtractor.cache: key -> text
    kbFile,      \* knowledge_base.json
    calls,       \* the number of requests made
    trace,       \* history: the library and file calls of the running request
    completed    \* history: label and fields of the requests answered 200

vars == <<pc, req, pdf_bytes, text, page, fields, knowledge, result, cache,
          kbFile, calls, trace, completed>>

NoReq == [label |-> "", schema |-> EmptyDict, pdf |-> ""]

Init ==
    /\ pc = [t \in Threads |-> "idle"]
    /\ req = [t \in Threads |-> NoReq]
    /\ pdf_bytes = [t \in Threads |-> <<>>]
    /\ text = [t \in Threads |-> <<>>]
    /\ page = [t \in Threads |-> 0]
    /\ fields = [t \in Threads |-> EmptyDict]
    /\ knowledge = [t \in Threads |-> EmptyDict]
    /\ result = [t \in Threads |-> 0]
    /\ cache = EmptyDict
    /\ kbFile = NoFile
    /\ calls = 0
    /\ trace = [t \in Threads |-> <<>>]
    /\ completed = <<>>

\* the event of a call, with the page it is about (0 when about none)
Ev(call, n) == <<call, n>>

Log(t, call, n) == trace' = [trace EXCEPT ![t] = Append(@, Ev(call, n))]

shared == <<cache, kbFile, calls, completed>>

(***************************************************************************)
(* extract_info and PDFExtractionService.process, up to the extraction     *)
(***************************************************************************)
\* a request arrives: base64.b64decode, and the check of empty bytes.  An
\* exception of b64decode leaves process and extract_info answers 400.
Request(t) ==
    /\ pc[t] = "idle"
    /\ calls < MaxCalls
    /\ \E label \in Labels, pdf \in Pdfs :
          LET decoded == b64decode(pdf)
          IN  /\ req' = [req EXCEPT ![t] =
                            [label |-> label, schema |-> SchemaOf(label),
                             pdf |-> pdf]]
              /\ IF decoded = BinasciiError \/ decoded = <<>>
                 THEN /\ pc' = [pc EXCEPT ![t] = "respond"]
                      /\ result' = [result EXCEPT ![t] = 400]
                      /\ UNCHANGED pdf_bytes
                 ELSE /\ pc' = [pc EXCEPT ![t] = "cache_contains"]
                      /\ pdf_bytes' = [pdf_bytes EXCEPT ![t] = decoded]
                      /\ UNCHANGED result
    /\ calls' = calls + 1
    /\ Log(t, "b64decode", 0)
    /\ UNCHANGED <<text, page, fields, knowledge, cache, kbFile, completed>>

(***************************************************************************)
(* PDFExtractor.extract_text_from_pdf_bytes                                *)
(***************************************************************************)
\* a bug: the cache is not consulted
CacheContains_miss(t) ==
    /\ pc[t] = "cache_contains"
    /\ pc' = [pc EXCEPT ![t] = "open"]
    /\ trace' = [trace EXCEPT ![t] = Append(@, <<"contains", 0>>)]
    /\ UNCHANGED <<req, pdf_bytes, text, page, fields, knowledge, result,
                   cache, kbFile, calls, completed>>

\* if key in self.cache
CacheContains(t) ==
    /\ pc[t] = "cache_contains"
    /\ IF md5(pdf_bytes[t]) \in DOMAIN cache
       THEN pc' = [pc EXCEPT ![t] = "cache_get"]
       ELSE pc' = [pc EXCEPT ![t] = "open"]
    /\ Log(t, "contains", 0)
    /\ UNCHANGED <<req, pdf_bytes, text, page, fields, knowledge, result, shared>>

\* return self.cache[key]
CacheGet(t) ==
    /\ pc[t] = "cache_get"
    /\ text' = [text EXCEPT ![t] = cache[md5(pdf_bytes[t])]]
    /\ pc' = [pc EXCEPT ![t] = "check"]
    /\ Log(t, "get", 0)
    /\ UNCHANGED <<req, pdf_bytes, page, fields, knowledge, result, shared>>

\* a bug: the error marker is appended to the text of the pages done
Raise_keepPages(t, call) ==
    /\ text' = [text EXCEPT ![t] = @ \o ErrorText(call)]
    /\ pc' = [pc EXCEPT ![t] = "store"]
    /\ UNCHANGED page

\* except Exception as e: text = f"__ERROR__ {str(e)}"
Raise(t, call) ==
    /\ text' = [text EXCEPT ![t] = ErrorText(call)]
    /\ pc' = [pc EXCEPT ![t] = "store"]
    /\ UNCHANGED page

\* a bug: the pages are recognized whatever the embedded text
AfterPages_always(txt) == "convert"

\* where the page loop ends: if not text.strip()
AfterPages(txt) == IF IsBlank(txt) THEN "convert" ELSE "store"

\* text = ""; fitz.open(stream=pdf_bytes, filetype="pdf")
FitzOpen(t) ==
    /\ pc[t] = "open"
    /\ \/ /\ text' = [text EXCEPT ![t] = <<>>]
          /\ page' = [page EXCEPT ![t] = 0]
          /\ pc' = [pc EXCEPT ![t] =
                       IF NumPages(pdf_bytes[t]) = 0 THEN AfterPages(<<>>)
                       ELSE "get_text"]
       \/ Raise(t, "open")
    /\ Log(t, "open", 0)
    /\ UNCHANGED <<req, pdf_bytes, fields, knowledge, result, shared>>

\* for page in doc: text += page.get_text("text")
GetText(t) ==
    /\ pc[t] = "get_text"
    /\ LET n == page[t] + 1
           txt == text[t] \o EmbeddedText(pdf_bytes[t])[n]
       IN  /\ \/ /\ text' = [text EXCEPT ![t] = txt]
                 /\ page' = [page EXCEPT ![t] = n]
                 /\ pc' = [pc EXCEPT ![t] =
                              IF n = NumPages(pdf_bytes[t]) THEN AfterPages(txt)
                              ELSE "get_text"]
              \/ Raise(t, "get_text")
           /\ Log(t, "get_text", n)
    /\ UNCHANGED <<req, pdf_bytes, fields, knowledge, result, shared>>

\* images = convert_from_bytes(pdf_bytes, dpi=200)
ConvertFromBytes(t) ==
    /\ pc[t] = "convert"
    /\ \/ /\ page' = [page EXCEPT ![t] = 0]
          /\ pc' = [pc EXCEPT ![t] =
                       IF NumPages(pdf_bytes[t]) = 0 THEN "store" ELSE "ocr"]
          /\ UNCHANGED text
       \/ Raise(t, "convert_from_bytes")
    /\ Log(t, "convert_from_bytes", 0)
    /\ UNCHANGED <<req, pdf_bytes, fields, knowledge, result, shared>>

\* for img in images: text += pytesseract.image_to_string(img, lang="por+eng")
ImageToString(t) ==
    /\ pc[t] = "ocr"
    /\ LET n == page[t] + 1
       IN  /\ \/ /\ text' = [text EXCEPT ![t] = @ \o OcrText(pdf_bytes[t])[n]]
                 /\ page' = [page EXCEPT ![t] = n]
                 /\ pc' = [pc EXCEPT ![t] =
                              IF n = NumPages(pdf_bytes[t]) THEN "store" ELSE "ocr"]
              \/ Raise(t, "image_to_string")
           /\ Log(t, "image_to_string", n)
    /\ UNCHANGED <<req, pdf_bytes, fields, knowledge, result, shared>>

\* a bug: the text of a failed extraction is not stored
CacheStore_skipErrors(t) ==
    /\ pc[t] = "store"
    /\ cache' = IF Contains(text[t], ErrorMarker) THEN cache
                ELSE [k \in DOMAIN cache \cup {md5(pdf_bytes[t])} |->
                         IF k = md5(pdf_bytes[t]) THEN text[t] ELSE cache[k]]
    /\ pc' = [pc EXCEPT ![t] = "check"]
    /\ trace' = [trace EXCEPT ![t] = Append(@, <<"set", 0>>)]
    /\ UNCHANGED <<req, pdf_bytes, text, page, fields, knowledge, result,
                   kbFile, calls, completed>>

\* self.cache[key] = text; return text
CacheStore(t) ==
    /\ pc[t] = "store"
    /\ cache' = [k \in DOMAIN cache \cup {md5(pdf_bytes[t])} |->
                    IF k = md5(pdf_bytes[t]) THEN text[t] ELSE cache[k]]
    /\ pc' = [pc EXCEPT ![t] = "check"]
    /\ Log(t, "set", 0)
    /\ UNCHANGED <<req, pdf_bytes, text, page, fields, knowledge, result,
                   kbFile, calls, completed>>

(***************************************************************************)
(* PDFExtractionService.process, after the extraction                      *)
(***************************************************************************)
\* a bug: the error marker is not looked for
CheckAndExtract_unchecked(t) ==
    /\ pc[t] = "check"
    /\ pc' = [pc EXCEPT ![t] = "load"]
    /\ fields' = [fields EXCEPT ![t] =
          SetDefaults(extract_fields_from_text_generic(text[t], req[t].schema),
                      req[t].schema)]
    /\ UNCHANGED <<req, pdf_bytes, text, page, knowledge, result, trace,
                   cache, kbFile, calls, completed>>

\* if "__ERROR__" in text: raise HTTPException; else the fields of the text
\* and the defaulting of the schema's keys
CheckAndExtract(t) ==
    /\ pc[t] = "check"
    /\ IF Contains(text[t], ErrorMarker)
       THEN /\ pc' = [pc EXCEPT ![t] = "respond"]
            /\ result' = [result EXCEPT ![t] = 400]
            /\ UNCHANGED fields
       ELSE /\ pc' = [pc EXCEPT ![t] = "load"]
            /\ fields' = [fields EXCEPT ![t] =
                  SetDefaults(extract_fields_from_text_generic(text[t], req[t].schema),
                              req[t].schema)]
            /\ UNCHANGED result
    /\ UNCHANGED <<req, pdf_bytes, text, page, knowledge, trace, shared>>

Partial == [state |-> "partial", content |-> EmptyDict]

\* knowledge = self.knowledge_base.load(), then the append to the label's
\* list.  json.load of a partial file raises and extract_info answers 400.
KbLoad(t) ==
    /\ pc[t] = "load"
    /\ IF kbFile.state = "partial"
       THEN /\ pc' = [pc EXCEPT ![t] = "respond"]
            /\ result' = [result EXCEPT ![t] = 400]
            /\ UNCHANGED knowledge
       ELSE /\ pc' = [pc EXCEPT ![t] = "save"]
            /\ knowledge' = [knowledge EXCEPT ![t] =
                  AppendRecord(IF kbFile.state = "absent" THEN EmptyDict
                               ELSE json_load(kbFile.content),
                               req[t].label, fields[t])]
            /\ UNCHANGED result
    /\ Log(t, "load", 0)
    /\ UNCHANGED <<req, pdf_bytes, text, page, fields, shared>>

\* save: open(self.filepath, "w") truncates the file
KbOpenWrite(t) ==
    /\ pc[t] = "save"
    /\ kbFile' = Partial
    /\ pc' = [pc EXCEPT ![t] = "dump"]
    /\ Log(t, "open_w", 0)
    /\ UNCHANGED <<req, pdf_bytes, text, page, fields, knowledge, result,
                   cache, calls, completed>>

\* save: json.dump and the close of the file, then process returns.  When
\* another writer has written the file since this one opened it, the two
\* documents overlay each other: the file holds this writer's document or,
\* when the other one is longer, no document.
KbDump(t) ==
    /\ pc[t] = "dump"
    /\ \E garbled \in (IF kbFile.state = "json" THEN BOOLEAN ELSE {FALSE}) :
          kbFile' = IF garbled THEN Partial
                    ELSE [state |-> "json", content |-> json_dump(knowledge[t])]
    /\ pc' = [pc EXCEPT ![t] = "respond"]
    /\ result' = [result EXCEPT ![t] = 200]
    /\ Log(t, "dump", 0)
    /\ UNCHANGED <<req, pdf_bytes, text, page, fields, knowledge,
                   cache, calls, completed>>

\* extract_info answers: the response of process, or HTTP 400
Respond(t) ==
    /\ pc[t] = "respond"
    /\ completed' = IF result[t] = 200
                    THEN Append(completed,
                                [label |-> req[t].label, fields |-> fields[t]])
                    ELSE completed
    /\ pc' = [pc EXCEPT ![t] = "idle"]
    /\ req' = [req EXCEPT ![t] = NoReq]
    /\ pdf_bytes' = [pdf_bytes EXCEPT ![t] = <<>>]
    /\ text' = [text EXCEPT ![t] = <<>>]
    /\ page' = [page EXCEPT ![t] = 0]
    /\ fields' = [fields EXCEPT ![t] = EmptyDict]
    /\ knowledge' = [knowledge EXCEPT ![t] = EmptyDict]
    /\ result' = [result EXCEPT ![t] = 0]
    /\ trace' = [trace EXCEPT ![t] = <<>>]
    /\ UNCHANGED <<cache, kbFile, calls>>

\* the steps of a request that has arrived
Step(t) ==
    \/ CacheContains(t)
    \/ CacheGet(t)
    \/ FitzOpen(t)
    \/ GetText(t)
    \/ ConvertFromBytes(t)
    \/ ImageToString(t)
    \/ CacheStore(t)
    \/ CheckAndExtract(t)
    \/ KbLoad(t)
    \/ KbOpenWrite(t)
    \/ KbDump(t)
    \/ Respond(t)

\* the requests are served by a pool of threads, at once
Next == \E t \in Threads : Request(t) \/ Step(t)

Spec == Init /\ [][Next]_vars

\* the requests are made one after the other
NextSequential ==
    \E t \in Threads :
        \/ (\A u \in Threads : pc[u] = "idle") /\ Request(t)
        \/ Step(t)

SpecSequential == Init /\ [][NextSequential]_vars

(***************************************************************************)
(* The field extraction alone: any text of up to MaxFragments fragments    *)
(* and any of FieldSchemas, at the point where process has its text        *)
(***************************************************************************)
MaxFragments == 3

Fragments ==
    { <<"J", "O", "A", "O", " ", "D", "A", " ", "S", "I", "L", "V", "A">>,
      <<"j", "o", "U+00E3", "o">>,
      <<"1", "2", "3", "4", "5", "6">>,
      <<"0", "1", "/", "0", "3", "/", "2", "0", "2", "4">>,
      <<"1", ".", "0", "0", "0", ",", "0", "0">>,
      <<"5", "0", "0", ",", "5", "0">>,
      <<"0", "2", "5", "0", ",", "0", "0">>,
      <<"0", "0", "7", ",", "5", "0">>,
      <<" ">> }

Texts ==
    {Flatten(fs) : fs \in UNION {[1..n -> Fragments] : n \in 0..MaxFragments}}

FieldSchemas ==
    {SchemaOab, SchemaTela, SchemaBoth, SchemaOther, EmptyDict,
     [numero_oab |-> "Numero OAB"],
     [data_referencia |-> "Data", total |-> "Valor total"]}

InitFields ==
    /\ \E txt \in Texts, schema \in FieldSchemas :
          /\ text = [t \in Threads |-> IF t = "w1" THEN txt ELSE <<>>]
          /\ req = [t \in Threads |->
                      IF t = "w1"
                      THEN [label |-> "oab_1", schema |-> schema, pdf |-> "QQ=="]
                      ELSE NoReq]
    /\ pc = [t \in Threads |-> IF t = "w1" THEN "check" ELSE "idle"]
    /\ pdf_bytes = [t \in Threads |-> IF t = "w1" THEN <<65>> ELSE <<>>]
    /\ page = [t \in Threads |-> 0]
    /\ fields = [t \in Threads |-> EmptyDict]
    /\ knowledge = [t \in Threads |-> EmptyDict]
    /\ result = [t \in Threads |-> 0]
    /\ cache = EmptyDict
    /\ kbFile = NoFile
    /\ calls = 1
    /\ trace = [t \in Threads |-> <<>>]
    /\ completed = <<>>

NextFields == \E t \in Threads : CheckAndExtract(t)

SpecFields == InitFields /\ [][NextFields]_vars

(***************************************************************************)
(* What the Knowledge Store holds, and what the answered requests stored   *)
(***************************************************************************)
\* the records the file holds under a label, in order
KbRecords(label) ==
    IF kbFile.state = "json" /\ label \in DOMAIN kbFile.content
    THEN json_load(kbFile.content)[label] ELSE <<>>

\* the fields of the requests answered 200 with a label, in order
CompletedFor(label) ==
    LET mine == SelectSeq(completed, LAMBDA c : c.label = label)
    IN  [i \in 1..Len(mine) |-> mine[i].fields]

Count(x, seq) == Cardinality({i \in 1..Len(seq) : seq[i] = x})

AllIdle == \A t \in Threads : pc[t] = "idle"

\* C1: once every request has been answered, the Knowledge Store holds the
\* record of every request answered 200, whatever the interleaving of the
\* requests' load and save.
C1_NoAppendLost ==
    AllIdle =>
        \A label \in Labels :
            \A i \in 1..Len(CompletedFor(label)) :
                Count(CompletedFor(label)[i], CompletedFor(label))
                    <= Count(CompletedFor(label)[i], KbRecords(label))

\* C3: with the requests made one after the other, the Knowledge Store holds
\* under each label the fields of the requests answered 200 with that label,
\* in the order of the requests; a label is there once a request stored under
\* it, and a request that is about to be answered 200 has added its record at
\* the end of its label's sequence and changed no other.
C3_AppendOnlyHistory ==
    /\ AllIdle =>
          /\ \A label \in Labels : KbRecords(label) = CompletedFor(label)
          /\ kbFile.state = (IF completed = <<>> THEN "absent" ELSE "json")
          /\ kbFile.state = "json" =>
                DOMAIN kbFile.content = {completed[i].label : i \in 1..Len(completed)}
    /\ \A t \in Threads :
          pc[t] = "respond" /\ result[t] = 200 =>
              \A label \in Labels :
                  KbRecords(label) =
                      CompletedFor(label) \o
                          (IF label = req[t].label THEN <<fields[t]>> ELSE <<>>)

\* two requests with one label have been answered and both records are there
C3_Witness ==
    /\ AllIdle
    /\ \E label \in Labels :
          /\ Len(CompletedFor(label)) = 2
          /\ CompletedFor(label)[1] # CompletedFor(label)[2]
          /\ KbRecords(label) = CompletedFor(label)

(***************************************************************************)
(* The cache                                                               *)
(***************************************************************************)
\* the library calls of the Extraction Engine
EngineCalls == {"open", "get_text", "convert_from_bytes", "image_to_string"}

\* where a thread is while the engine runs for it, up to the cache's set
EnginePcs == {"open", "get_text", "convert", "ocr", "store"}

\* the pages of the calls `call` of the running request, in order
PagesOf(t, call) ==
    LET evs == SelectSeq(trace[t], LAMBDA e : e[1] = call)
    IN  [i \in 1..Len(evs) |-> evs[i][2]]

Called(t, call) == PagesOf(t, call) # <<>>

EngineRan(t) == \E call \in EngineCalls : Called(t, call)

IsError(txt) == Contains(txt, ErrorMarker)

\* C2: once a text is stored under the fingerprint of a document, a request
\* with the same bytes that looks the cache up finds the entry, makes no call
\* of the Extraction Engine and has the text stored under the fingerprint,
\* whatever its label and schema; no entry is ever removed.
C2_CacheHitSkipsEngine ==
    [][ /\ \A k \in DOMAIN cache : k \in DOMAIN cache'
        /\ \A t \in Threads :
              /\ (pc[t] = "cache_contains" /\ md5(pdf_bytes[t]) \in DOMAIN cache)
                    => pc'[t] \in {"cache_contains", "cache_get"}
              /\ (pc[t] = "cache_get" /\ pc'[t] # "cache_get")
                    => /\ pc'[t] = "check"
                       /\ text'[t] = cache[md5(pdf_bytes[t])]
                       /\ ~EngineRan(t)'
              /\ (Called(t, "get") /\ pc'[t] # "idle") => ~EngineRan(t)' ]_vars

\* a request has the text another request stored, under another label and
\* another schema
C2_Witness ==
    \E t \in Threads :
        /\ pc[t] = "check"
        /\ Called(t, "get")
        /\ ~EngineRan(t)
        /\ text[t] = cache[md5(pdf_bytes[t])]
        /\ ~IsError(text[t])
        /\ completed # <<>>
        /\ completed[1].label # req[t].label
        /\ DOMAIN completed[1].fields # DOMAIN req[t].schema

\* the threads that missed the cache for the key and have not stored yet
Extracting(k) ==
    {u \in Threads : pc[u] \in EnginePcs /\ md5(pdf_bytes[u]) = k}

KbCalls == {"load", "open_w", "dump"}

\* C5: a request whose bytes decode to nothing is answered 400 with
\* b64decode its only call: neither the cache nor the Extraction Engine nor
\* the Knowledge Store is touched.  A request whose extracted text holds the
\* error marker is answered 400 once the text is checked, with no fields and
\* no call of the Knowledge Store: it appends no record and creates no label.
C5_BadInputLeavesStore ==
    \A t \in Threads :
        /\ (pc[t] # "idle" /\ b64decode(req[t].pdf) = <<>>) =>
              /\ pc[t] = "respond"
              /\ result[t] = 400
              /\ trace[t] = <<Ev("b64decode", 0)>>
              /\ fields[t] = EmptyDict
              /\ knowledge[t] = EmptyDict
        /\ (pc[t] \in {"load", "save", "dump", "respond"} /\ IsError(text[t])) =>
              /\ pc[t] = "respond"
              /\ result[t] = 400
              /\ \A call \in KbCalls : ~Called(t, call)
              /\ fields[t] = EmptyDict
              /\ knowledge[t] = EmptyDict

\* a request is answered 400 for the error marker while the Knowledge Store
\* holds the record of an earlier request, and still holds it
C5_Witness ==
    \E t \in Threads :
        /\ pc[t] = "respond"
        /\ result[t] = 400
        /\ IsError(text[t])
        /\ completed # <<>>
        /\ \A label \in Labels : KbRecords(label) = CompletedFor(label)

(***************************************************************************)
(* The Extraction Engine                                                   *)
(***************************************************************************)
\* 1, 2, ..., n
UpTo(n) == [i \in 1..n |-> i]

\* the text of a document whose extraction does not fail
FullText(b) ==
    LET embedded == Flatten(EmbeddedText(b))
    IN  IF IsBlank(embedded) THEN embedded \o Flatten(OcrText(b)) ELSE embedded

\* C7: on a cache miss the pages are rasterized and recognized only if the
\* embedded text of all pages is blank; image_to_string is called at most once
\* per page, in page order; an extraction that does not fail has called it for
\* no page when there is embedded text, and once for every page, the texts
\* concatenated in page order, when there is none.
C7_OcrOnlyWithoutEmbeddedText ==
    \A t \in Threads :
        (pc[t] \in EnginePcs \/ EngineRan(t)) =>
            LET b == pdf_bytes[t]
                n == NumPages(b)
                blank == IsBlank(Flatten(EmbeddedText(b)))
                ocr == PagesOf(t, "image_to_string")
                raster == PagesOf(t, "convert_from_bytes")
            IN  /\ Len(ocr) <= n /\ ocr = UpTo(Len(ocr))
                /\ Len(raster) <= 1
                /\ (raster # <<>> \/ ocr # <<>>) =>
                      blank /\ PagesOf(t, "get_text") = UpTo(n)
                /\ ((pc[t] = "store" \/ Called(t, "set")) /\ ~IsError(text[t])) =>
                      IF blank
                      THEN /\ raster = <<0>>
                           /\ ocr = UpTo(n)
                           /\ text[t] = Flatten(EmbeddedText(b)) \o Flatten(OcrText(b))
                      ELSE /\ raster = <<>>
                           /\ ocr = <<>>
                           /\ text[t] = Flatten(EmbeddedText(b))

\* the extraction of a scan is done: every page recognized once
C7_Witness ==
    \E t \in Threads :
        /\ pc[t] = "store"
        /\ ~IsError(text[t])
        /\ IsBlank(Flatten(EmbeddedText(pdf_bytes[t])))
        /\ PagesOf(t, "image_to_string") = <<1, 2>>
        /\ text[t] = Flatten(EmbeddedText(pdf_bytes[t])) \o Flatten(OcrText(pdf_bytes[t]))

\* the last call made for the running request
LastCall(t) == trace[t][Len(trace[t])][1]

\* C8: the extraction never leaves by an exception: it ends at the cache's
\* set.  The text it ends with is the complete text of the document, every
\* page done, or exactly the error-marked text of the call that failed, with
\* nothing of the pages done before; that text is what is stored and returned.
C8_AllOrNothing ==
    [][\A t \in Threads :
          /\ pc[t] \in EnginePcs => pc'[t] \in EnginePcs \cup {"check"}
          /\ (pc[t] # "store" /\ pc'[t] = "store") =>
                \/ /\ text'[t] = FullText(pdf_bytes[t])
                   /\ PagesOf(t, "get_text")' = UpTo(NumPages(pdf_bytes[t]))
                   /\ IsBlank(Flatten(EmbeddedText(pdf_bytes[t]))) =>
                         PagesOf(t, "image_to_string")' = UpTo(NumPages(pdf_bytes[t]))
                \/ /\ LastCall(t)' \in EngineCalls
                   /\ text'[t] = ErrorText(LastCall(t)')
          /\ (pc[t] = "store" /\ pc'[t] # "store") =>
                /\ pc'[t] = "check"
                /\ text'[t] = text[t]
                /\ cache'[md5(pdf_bytes[t])] = text[t] ]_vars

\* the recognition of the second page failed after the first was recognized:
\* the text stored and returned is the error-marked text alone
C8_Witness ==
    \E t \in Threads :
        /\ pc[t] = "check"
        /\ Called(t, "set")
        /\ PagesOf(t, "image_to_string") = <<1, 2>>
        /\ text[t] = ErrorText("image_to_string")
        /\ cache[md5(pdf_bytes[t])] = text[t]

(***************************************************************************)
(* The field extraction                                                    *)
(***************************************************************************)
IdentityKeys == {"nome", "numero_oab"}

LedgerKeys == {"data_referencia", "saldo_vencido", "saldo_a_vencer", "total"}

\* the threads whose fields are extracted and defaulted
Extracted == {t \in Threads : pc[t] = "load"}

\* C4: the keys of the field mapping of a request are exactly the keys of
\* its schema.
C4_KeysAreSchemaKeys ==
    \A t \in Extracted : DOMAIN fields[t] = DOMAIN req[t].schema

\* C9: with numero_oab in the schema the name and the number are those of the
\* identity rules and no other field has a value, data_referencia in the
\* schema or not; else with data_referencia in the schema the four ledger
\* fields are those of the ledger rules and no other field has a value; else
\* the mapping has the schema's keys and no field has a value.
C9_FirstMatchDispatch ==
    \A t \in Extracted :
        LET S == DOMAIN req[t].schema
            n == normalize_text(text[t])
            f == fields[t]
        IN  IF "numero_oab" \in S
            THEN /\ f["nome"] = SearchNome(n)
                 /\ f["numero_oab"] = SearchNumero(n)
                 /\ \A k \in DOMAIN f \ IdentityKeys : f[k] = None
            ELSE IF "data_referencia" \in S
            THEN /\ f["data_referencia"] = SearchData(n)
                 /\ \A k \in LedgerKeys : f[k] = LedgerRules(n)[k]
                 /\ \A k \in DOMAIN f \ LedgerKeys : f[k] = None
            ELSE /\ DOMAIN f = S
                 /\ \A k \in S : f[k] = None

\* the schema names both keys and the text holds a date and a name: the name
\* is found and the date is not looked for
C9_Witness ==
    \E t \in Extracted :
        /\ req[t].schema = SchemaBoth
        /\ SearchData(normalize_text(text[t])) # None
        /\ fields[t]["nome"] = <<"J", "O", "A", "O", " ", "D", "A", " ", "S", "I", "L", "V", "A">>
        /\ fields[t]["data_referencia"] = None

\* a converted amount: digits, a point, two digits, no grouping dot
IsConverted(v) ==
    /\ RunLen(v, 1, Digits) >= 1
    /\ At(v, RunLen(v, 1, Digits) + 1) = "."
    /\ Len(v) = RunLen(v, 1, Digits) + 3
    /\ RunLen(v, Len(v) - 1, Digits) = 2

\* C10: under the ledger rules, with V the amounts found in the text in
\* order: saldo_vencido is the converted first of V, saldo_a_vencer the
\* converted second of V or null when V has fewer than two, total the
\* converted last of V; one amount fills saldo_vencido and total, and with no
\* amount the three are null.
C10_LedgerAmounts ==
    \A t \in Extracted :
        ("numero_oab" \notin DOMAIN req[t].schema
            /\ "data_referencia" \in DOMAIN req[t].schema) =>
            LET V == FindallValores(normalize_text(text[t]))
                f == fields[t]
            IN  /\ \A i \in 1..Len(V) : IsConverted(normalize_money(V[i]))
                /\ f["saldo_vencido"] =
                       (IF Len(V) >= 1 THEN normalize_money(V[1]) ELSE None)
                /\ f["saldo_a_vencer"] =
                       (IF Len(V) >= 2 THEN normalize_money(V[2]) ELSE None)
                /\ f["total"] =
                       (IF Len(V) >= 1 THEN normalize_money(V[Len(V)]) ELSE None)
                /\ Len(V) = 1 =>
                      f["saldo_vencido"] = f["total"] /\ f["saldo_a_vencer"] = None
                /\ Len(V) = 0 =>
                      /\ f["saldo_vencido"] = None
                      /\ f["saldo_a_vencer"] = None
                      /\ f["total"] = None

\* the one amount 250,00 fills saldo_vencido and total as 250.00
C10_Witness ==
    \E t \in Extracted :
        /\ req[t].schema = SchemaTela
        /\ FindallValores(normalize_text(text[t])) = << <<"2", "5", "0", ",", "0", "0">> >>
        /\ fields[t]["saldo_vencido"] = <<"2", "5", "0", ".", "0", "0">>
        /\ fields[t]["total"] = <<"2", "5", "0", ".", "0", "0">>
        /\ fields[t]["saldo_a_vencer"] = None

=============================================================================
